---- MODULE Spec2Model ----
(***************************************************************************)
(* A model of the aha web scraper (package aha): the pickup resolver of    *)
(* aha/api.py, the location directory (get_locations / find_location),     *)
(* the per-day pickup cache of aha/functions.py, the command line program  *)
(* of aha/cli.py and the value types of aha/types.py.                      *)
(*                                                                         *)
(* Python strings that the code takes apart (street names, house numbers)  *)
(* are sequences of one-character strings; strings that the code only      *)
(* compares or passes on are TLA+ strings.  Python's None is the value     *)
(* None.  Non-ASCII letters are transliterated (ae for a-umlaut).          *)
(***************************************************************************)
EXTENDS Integers, Sequences, FiniteSets, TLC

VARIABLES
    \* ---- pickup resolver (aha/api.py _get_pickups) ----
    site,       \* the remote site: 'ladeort' of a POST -> its response
    option,     \* the catalog option value the run's Location was made from
    request,    \* <<the Request the next _get_pickups level posts>>, or <<>>
    pc,         \* "post": a level is about to post; "done": the run ended
    sent,       \* the POST payloads issued so far in this run, in order
    yielded,    \* the Pickups yielded so far in this run, in order
    outcome,    \* once pc = "done": the exception that ended the run (exc
                \* None: it returned) and the exception's arguments
    \* ---- HouseNumber.from_string (aha/types.py) ----
    hnInput,    \* the string handed to HouseNumber.from_string
    hnResult,   \* <<>>, or <<what from_string returned or raised>>
    \* ---- location directory (aha/api.py get_locations, find_location) ----
    PARAMS,     \* the module-level PARAMS dict: its 'gemeinde' entry
    memo,       \* functools.cache of get_locations: municipality -> frozenset
    fetches,    \* per municipality: the catalogs that listing fetches
                \* gave so far, in order (the first MaxFetches of them)
    lastGet,    \* the last get_locations call: what it returned, what it sent
    lastFind,   \* the last find_location call and its outcome
    pinnedFind, \* some earlier find_location call and its outcome
    \* ---- per-day pickup cache (aha/functions.py get_cached_pickups) ----
    today,      \* date.today()
    CACHE,      \* the module-level CACHE dict: day -> (key -> cached value)
    lastCached, \* the last get_cached_pickups call and what it returned
    \* ---- command line program (aha/cli.py main) ----
    cliRun,     \* <<>>, or <<one run of main>>: its arguments, the remote site
                \* it met and how it ended
    \* ---- parse_pickups over one table (aha/api.py) ----
    rows,       \* the tr elements of the table, in document order
    framed,     \* <<>>, or <<what parse_pickups gave for the table>>
    \* ---- concurrent get_locations calls (aha/api.py) ----
    threads,    \* per thread: where its get_locations call stands
    memoSource  \* per memoized municipality: the 'gemeinde' its catalog was
                \* requested with

resolverVars == <<site, option, request, pc, sent, yielded, outcome>>
houseVars == <<hnInput, hnResult>>
directoryVars == <<PARAMS, memo, fetches, lastGet, lastFind, pinnedFind>>
cacheVars == <<today, CACHE, lastCached>>
cliVars == <<cliRun>>
framingVars == <<rows, framed>>
threadVars == <<threads, memoSource>>

vars ==
    <<resolverVars, houseVars, directoryVars, cacheVars, cliVars, framingVars,
      threadVars>>

None == "None"

\* What a call gives: the value it returns, or the exception it raises.
Ok(v) == [exc |-> None, val |-> v]
Raise(e) == [exc |-> e]

(***************************************************************************)
(* Bounds of the model.                                                    *)
(***************************************************************************)
\* Levels of _get_pickups recursion the model follows before the
\* interpreter's recursion limit ends the run with RecursionError.
MaxDepth == 4
\* Longest house number string handed to HouseNumber.from_string.
MaxHouseLen == 5
\* The last calendar day of the model; the first is day 1.
MaxDay == 2
\* Successful listing fetches recorded per municipality.
MaxFetches == 2
\* Rows of a results table after its header row.
MaxRows == 8

(***************************************************************************)
(* Generic helpers.                                                        *)
(***************************************************************************)
Range(s) == {s[i] : i \in 1..Len(s)}

RECURSIVE Flatten(_)
Flatten(ss) == IF ss = <<>> THEN <<>> ELSE Head(ss) \o Flatten(Tail(ss))

\* s[i:] of Python for a 0-based index i
SliceFrom(s, i) == SubSeq(s, i + 1, Len(s))


(***************************************************************************)
(* Characters.  CodeOrder lists the characters of the model in ascending   *)
(* code point order; Ord gives a character's rank in it, which orders      *)
(* strings the way Python's str comparison does.                           *)
(***************************************************************************)
CodeOrder ==
    << " ", "-", ".", "0", "1", "2", "3", "4", "5", "6", "7", "8", "9", "@",
       "F", "H", "L", "N", "S",
       "a", "b", "d", "e", "h", "i", "k", "n", "o", "p", "r", "s", "t", "u",
       "sz" >>

Ord(c) == CHOOSE i \in 1..Len(CodeOrder) : CodeOrder[i] = c

\* str.isdigit for the characters of the model
DigitChars == <<"0", "1", "2", "3", "4", "5", "6", "7", "8", "9">>

isdigit(c) == c \in Range(DigitChars)

\* string.ascii_letters
ascii_letters ==
    {"F", "H", "L", "N", "S", "a", "b", "d", "e", "h", "i", "k", "n", "o",
     "p", "r", "s", "t", "u"}

DigitValue(c) == (CHOOSE i \in 1..10 : DigitChars[i] = c) - 1

\* int(''.join(number)) for a non-empty list of digits
RECURSIVE int(_)
int(ds) ==
    IF Len(ds) = 1 THEN DigitValue(ds[1])
    ELSE 10 * int(SubSeq(ds, 1, Len(ds) - 1)) + DigitValue(ds[Len(ds)])

(***************************************************************************)
(* HouseNumber (aha/types.py).                                             *)
(***************************************************************************)
\* The first loop of split_number_and_suffix: the 0-based index at which it
\* stops.  It breaks at the first character that is no digit; without a
\* break, index keeps the value of the last iteration (0 for '').
RECURSIVE FirstLoopIndex(_, _)
FirstLoopIndex(string, i) ==
    IF i >= Len(string) THEN (IF Len(string) = 0 THEN 0 ELSE Len(string) - 1)
    ELSE IF ~isdigit(string[i + 1]) THEN i
    ELSE FirstLoopIndex(string, i + 1)

\* The digits the first loop appends to number.
RECURSIVE FirstLoopNumber(_)
FirstLoopNumber(string) ==
    IF string = <<>> \/ ~isdigit(Head(string)) THEN <<>>
    ELSE <<Head(string)>> \o FirstLoopNumber(Tail(string))

\* The second loop: every ASCII letter of string[index:], in order.
IsAsciiLetter(c) == c \in ascii_letters

SecondLoopSuffix(rest) == SelectSeq(rest, IsAsciiLetter)

split_number_and_suffix(string) ==
    LET index == FirstLoopIndex(string, 0)
        number == FirstLoopNumber(string)
        suffix == SecondLoopSuffix(SliceFrom(string, index))
    IN  IF number = <<>> THEN Raise("ValueError")
        ELSE Ok([number |-> int(number), suffix |-> suffix])

HouseNumber_from_string(string) == split_number_and_suffix(string)

\* str(n) for an integer n >= 0
RECURSIVE str_int(_)
str_int(n) ==
    IF n < 10 THEN <<DigitChars[n + 1]>>
    ELSE str_int(n \div 10) \o <<DigitChars[(n % 10) + 1]>>

(***************************************************************************)
(* Location and Request (aha/types.py).  A Location is the tuple           *)
(* <<id, name, district>> of strings.                                      *)
(***************************************************************************)
\* sep.join(parts)
RECURSIVE join(_, _)
join(sep, parts) ==
    IF parts = <<>> THEN <<>>
    ELSE IF Len(parts) = 1 THEN parts[1]
    ELSE parts[1] \o sep \o join(sep, Tail(parts))

\* string.split(sep) for a one-character separator
RECURSIVE split(_, _)
split(string, sep) ==
    IF \A i \in 1..Len(string) : string[i] # sep THEN <<string>>
    ELSE LET k == CHOOSE i \in 1..Len(string) :
                      string[i] = sep /\ \A j \in 1..(i - 1) : string[j] # sep
         IN  <<SubSeq(string, 1, k - 1)>> \o split(SliceFrom(string, k), sep)

\* Location.__str__
Location_str(location) == join(<<"@">>, location)

\* field.strip() for blanks
RECURSIVE strip(_)
strip(field) ==
    IF field = <<>> THEN field
    ELSE IF Head(field) = " " THEN strip(Tail(field))
    ELSE IF field[Len(field)] = " " THEN strip(SubSeq(field, 1, Len(field) - 1))
    ELSE field

\* A from_string that trims the fields
Location_from_string_stripped(string) ==
    LET fields == split(string, "@")
    IN  IF Len(fields) = 3
        THEN Ok(<<strip(fields[1]), strip(fields[2]), strip(fields[3])>>)
        ELSE Raise("TypeError")

\* Location.from_string: cls(*string.split('@')) takes exactly three fields
Location_from_string(string) ==
    LET fields == split(string, "@")
    IN  IF Len(fields) = 3 THEN Ok(fields) ELSE Raise("TypeError")

Request(location, house_number, municipality, pickup_location) ==
    [location |-> location, house_number |-> house_number,
     municipality |-> municipality, pickup_location |-> pickup_location]

\* Request.change_location
change_location(self, pickup_location) ==
    Request(self.location, self.house_number, self.municipality,
            pickup_location)

\* Request.to_json
Request_to_json(self) ==
    [gemeinde |-> self.municipality,
     strasse |-> Location_str(self.location),
     hausnr |-> str_int(self.house_number.number),
     hausnraddon |-> self.house_number.suffix,
     ladeort |-> self.pickup_location,
     anzeigen |-> "Suchen"]

(***************************************************************************)
(* street_regex (aha/parsers.py) and the regular expressions it builds.    *)
(***************************************************************************)
\* STREET_MAP, in the order its items are enumerated
STREET_MAP ==
    << << <<"s", "t", "r", "a", "s", "s", "e">>, <<"s", "t", "r", ".">> >>,
       << <<"s", "t", "r", "a", "sz", "e">>, <<"s", "t", "r">> >>,
       << <<"S", "t", "r", "a", "s", "s", "e">>, <<"S", "t", "r", ".">> >>,
       << <<"S", "t", "r", "a", "sz", "e">>, <<"S", "t", "r", ".">> >> >>

\* string.startswith(prefix), string.endswith(suffix)
startswith(string, prefix) ==
    Len(prefix) <= Len(string) /\ SubSeq(string, 1, Len(prefix)) = prefix

endswith(string, suffix) ==
    /\ Len(suffix) <= Len(string)
    /\ SubSeq(string, Len(string) - Len(suffix) + 1, Len(string)) = suffix

\* string.replace(old, new): every occurrence of old, left to right
RECURSIVE replace(_, _, _)
replace(string, old, new) ==
    IF string = <<>> THEN <<>>
    ELSE IF startswith(string, old)
    THEN new \o replace(SliceFrom(string, Len(old)), old, new)
    ELSE <<Head(string)>> \o replace(Tail(string), old, new)

\* The loop of street_regex over STREET_MAP: the first key the street ends
\* with is replaced by its value
RECURSIVE normalize(_, _)
normalize(street, i) ==
    IF i > Len(STREET_MAP) THEN street
    ELSE IF endswith(street, STREET_MAP[i][1])
    THEN replace(street, STREET_MAP[i][1], STREET_MAP[i][2])
    ELSE normalize(street, i + 1)

\* The pattern string street_regex compiles, with flags=IGNORECASE
street_regex(street) == replace(normalize(street, 1), <<".">>, <<".", "*">>)

\* Case folding of IGNORECASE for the characters of the model
Fold(c) ==
    CASE c = "F" -> "f" [] c = "H" -> "h" [] c = "L" -> "l" [] c = "N" -> "n"
      [] c = "S" -> "s" [] OTHER -> c

\* Whether the pattern matches string from its start on and, if whole, up
\* to its end.  The patterns of the model hold literal characters, '.' (any
\* character) and '.*' (any run of characters).
RECURSIVE matches(_, _, _)
matches(pattern, string, whole) ==
    IF pattern = <<>> THEN (~whole \/ string = <<>>)
    ELSE IF Len(pattern) >= 2 /\ pattern[1] = "." /\ pattern[2] = "*"
    THEN \E k \in 0..Len(string) :
             matches(SliceFrom(pattern, 2), SliceFrom(string, k), whole)
    ELSE /\ string # <<>>
         /\ pattern[1] = "." \/ Fold(pattern[1]) = Fold(string[1])
         /\ matches(Tail(pattern), Tail(string), whole)

\* Pattern.fullmatch(string) is not None
re_fullmatch(pattern, string) == matches(pattern, string, TRUE)

\* Pattern.match(string) is not None
re_match(pattern, string) == matches(pattern, string, FALSE)

(***************************************************************************)
(* Ordering of strings and of Locations: Python compares strings by code   *)
(* point and tuples field by field.                                        *)
(***************************************************************************)
RECURSIVE StrLess(_, _)
StrLess(a, b) ==
    IF b = <<>> THEN FALSE
    ELSE IF a = <<>> THEN TRUE
    ELSE IF Head(a) # Head(b) THEN Ord(Head(a)) < Ord(Head(b))
    ELSE StrLess(Tail(a), Tail(b))

\* a < b for two Locations (NamedTuples of id, name, district)
RECURSIVE TupleLess(_, _)
TupleLess(a, b) ==
    IF b = <<>> THEN FALSE
    ELSE IF a = <<>> THEN TRUE
    ELSE IF Head(a) # Head(b) THEN StrLess(Head(a), Head(b))
    ELSE TupleLess(Tail(a), Tail(b))

\* Where sorted() puts item into an ascending list
RECURSIVE Insert(_, _)
Insert(item, list) ==
    IF list = <<>> THEN <<item>>
    ELSE IF TupleLess(item, Head(list)) THEN <<item>> \o list
    ELSE <<Head(list)>> \o Insert(item, Tail(list))

\* sorted(iterable) of Locations
RECURSIVE sorted(_)
sorted(iterable) ==
    IF iterable = <<>> THEN <<>>
    ELSE Insert(iterable[Len(iterable)],
                sorted(SubSeq(iterable, 1, Len(iterable) - 1)))

(***************************************************************************)
(* The markup the resolver reads.  A document is                           *)
(*   [table |-> what document.find("table") finds,                         *)
(*    ladeort |-> what document.find(id="ladeort") finds],                 *)
(* each Absent (find returns None) or Found(e): for the table, e is the    *)
(* sequence of its tr rows; for the selector, the sequence of its option   *)
(* values.                                                                 *)
(* A row is [strong, img, tds]: the text of its strong element and the src *)
(* of its img element (None when the row has none) and its td cells; a td  *)
(* is [text, contents], its text and the text nodes among its children.    *)
(* A date token is [commas, body, star]: how many commas the text node     *)
(* holds, the text after the comma without '*' and blanks, and whether a   *)
(* '*' marks it.                                                           *)
(***************************************************************************)
Absent == <<>>
Found(element) == <<element>>

Td(text, contents) == [text |-> text, contents |-> contents]

Row(strong, img, tds) == [strong |-> strong, img |-> img, tds |-> tds]

DateToken(commas, body, star) == [commas |-> commas, body |-> body, star |-> star]

\* datetime.strptime(date_string, '%d.%m.%Y').date(), as an ISO date
strptime(body) ==
    CASE body = "05.01.2024" -> Ok("2024-01-05")
      [] body = "19.01.2024" -> Ok("2024-01-19")
      [] body = "12.01.2024" -> Ok("2024-01-12")
      [] OTHER -> Raise("ValueError")

\* parse_date: split(',') must give two parts; '*' and blanks are stripped
parse_date(token) ==
    IF token.commas # 1 THEN Raise("ValueError") ELSE strptime(token.body)

\* Interval(value): the enum member with that value
Interval(phrase) ==
    CASE phrase = "14- taeglich" -> Ok("FORTNIGHTLY")
      [] phrase = "1x woechentlich" -> Ok("WEEKLY")
      [] OTHER -> Raise("ValueError")

\* [parse_date(dat) for dat in text_content(dates)]: the dates in document
\* order, or the first failure
RECURSIVE parse_dates(_)
parse_dates(tokens) ==
    IF tokens = <<>> THEN Ok(<<>>)
    ELSE LET d == parse_date(Head(tokens))
         IN  IF d.exc # None THEN d
             ELSE LET rest == parse_dates(Tail(tokens))
                  IN  IF rest.exc # None THEN rest
                      ELSE Ok(<<d.val>> \o rest.val)

Pickup(type, image, weekday, dates, interval) ==
    [type |-> type, image |-> image, weekday |-> weekday, dates |-> dates,
     interval |-> interval]

\* Pickup.from_elements: the Pickup, or the exception raised, in the order
\* Python evaluates the unpacking and the constructor's arguments
from_elements(caption, schedule) ==
    IF Len(schedule.tds) # 3 THEN Raise("ValueError")
    ELSE IF caption.strong = None THEN Raise("AttributeError")
    ELSE IF caption.img = None THEN Raise("TypeError")
    ELSE LET weekday == schedule.tds[1]
             dates == parse_dates(schedule.tds[2].contents)
             interval == Interval(schedule.tds[3].text)
         IN  IF dates.exc # None THEN dates
             ELSE IF interval.exc # None THEN interval
             ELSE Ok(Pickup(caption.strong, caption.img, weekday.text,
                            dates.val, interval.val))

(***************************************************************************)
(* The pickup resolver (aha/api.py).                                       *)
(***************************************************************************)
\* frames(iterable, size): the full frames, in order; a last frame that is
\* not filled is logged and dropped
RECURSIVE frames(_, _)
frames(iterable, size) ==
    IF Len(iterable) < size THEN <<>>
    ELSE <<SubSeq(iterable, 1, size)>> \o frames(SliceFrom(iterable, size), size)

\* Whether frames logs "Last frame not filled"
frames_warns(iterable, size) == Len(iterable) % size # 0

\* The loop of parse_pickups over the frames: the Pickups yielded before
\* the first failure and the exception that ended the loop (None: none)
RECURSIVE parse_frames(_)
parse_frames(fs) ==
    IF fs = <<>> THEN [pickups |-> <<>>, exc |-> None]
    ELSE LET p == from_elements(Head(fs)[2], Head(fs)[3])
         IN  IF p.exc # None THEN [pickups |-> <<>>, exc |-> p.exc]
             ELSE LET rest == parse_frames(Tail(fs))
                  IN  [pickups |-> <<p.val>> \o rest.pickups, exc |-> rest.exc]

\* A parse_pickups that does not skip the header row
parse_pickups_unskipped(document) ==
    IF document.table = Absent
    THEN [pickups |-> <<>>, exc |-> "ScrapingError",
          message |-> "Could not find table element"]
    ELSE parse_frames(frames(document.table[1], 4))

\* parse_pickups(document)
parse_pickups(document) ==
    IF document.table = Absent
    THEN [pickups |-> <<>>, exc |-> "ScrapingError",
          message |-> "Could not find table element"]
    ELSE parse_frames(frames(SliceFrom(document.table[1], 1), 4))

\* get_pickup_locations(document): the option values of the element with
\* id 'ladeort'; document.find(id="ladeort") is None when there is none, and
\* None has no find_all
get_pickup_locations(document) ==
    IF document.ladeort = Absent THEN Raise("AttributeError")
    ELSE Ok(document.ladeort[1])

\* One level of _get_pickups(request): the POST it issues, the Pickups it
\* yields itself, and how it goes on: with the exception it raises (exc, with
\* the exception's arguments in args), with the request it recurses into
\* (next, a sequence of no or one Request), or, with neither, by returning.
Level(post, pickups, exc, args, next) ==
    [post |-> post, pickups |-> pickups, exc |-> exc, args |-> args,
     next |-> next]

\* A handler without the inner try: the ValueError of unpacking no option
\* leaves it
on_scraping_error_unguarded(req, post, document, parsed, options) ==
    IF options.exc # None
    THEN Level(post, <<>>, options.exc, <<>>, <<>>)
    ELSE IF options.val = <<>>
    THEN Level(post, <<>>, "ValueError", <<>>, <<>>)
    ELSE Level(post, <<>>, None, <<>>,
               <<change_location(req, Head(options.val))>>)

\* The handler of ScrapingError: pickup_location, *_ = the options; no
\* option (ValueError) re-raises the error, the first one is followed
on_scraping_error(req, post, document, parsed, options) ==
    IF options.exc # None
    THEN Level(post, <<>>, options.exc, <<>>, <<>>)
    ELSE IF options.val = <<>>
    THEN Level(post, <<>>, "ScrapingError", <<parsed.message, document>>, <<>>)
    ELSE Level(post, <<>>, None, <<>>,
               <<change_location(req, Head(options.val))>>)

\* A try statement whose handler takes every failure of parse_pickups for
\* the missing table
on_document_catch_all(req, post, document, parsed) ==
    IF parsed.exc = None
    THEN Level(post, parsed.pickups, parsed.exc, <<>>, <<>>)
    ELSE on_scraping_error(req, post, document,
                           [pickups |-> <<>>, exc |-> "ScrapingError",
                            message |-> "Could not find table element"],
                           get_pickup_locations(document))

\* The try statement of _get_pickups over the parsed document
on_document(req, post, document, parsed) ==
    IF parsed.exc # "ScrapingError"
    THEN Level(post, parsed.pickups, parsed.exc, <<>>, <<>>)
    ELSE on_scraping_error(req, post, document, parsed,
                           get_pickup_locations(document))

\* Whether _get_pickups takes the response's status for a failure
lookup_failed(response) == response.status_code # 200

on_response(req, post, response) ==
    IF lookup_failed(response)
    THEN Level(post, <<>>, "HTTPError",
               <<response.document, response.status_code>>, <<>>)
    ELSE on_document(req, post, response.document,
                     parse_pickups(response.document))

\* post(URL, data=request.to_json()) against the site
respond(remote, post) == remote[post.ladeort]

get_pickups_posted(remote, req, post) ==
    on_response(req, post, respond(remote, post))

get_pickups_level(remote, req) ==
    get_pickups_posted(remote, req, Request_to_json(req))

\* A whole run of _get_pickups(request), as list() or a comprehension drives
\* it: the POSTs issued, the Pickups yielded and the exception that ended it
\* (None: it returned), with its arguments.  depth counts the levels entered
\* so far; at MaxDepth the interpreter's recursion limit ends the run.
Run(posts, pickups, exc, args) ==
    [sent |-> posts, pickups |-> pickups, exc |-> exc, args |-> args]

\* yield from: what the outer level passes on of the inner run
yield_from(level, inner) ==
    Run(<<level.post>> \o inner.sent, level.pickups \o inner.pickups,
        inner.exc, inner.args)

RECURSIVE get_pickups_run(_, _, _)
RECURSIVE run_level(_, _, _)
run_level(remote, level, depth) ==
    IF level.exc # None \/ level.next = <<>>
    THEN Run(<<level.post>>, level.pickups, level.exc, level.args)
    ELSE yield_from(level, get_pickups_run(remote, level.next[1], depth + 1))

get_pickups_run(remote, req, depth) ==
    IF depth >= MaxDepth THEN Run(<<>>, <<>>, "RecursionError", <<>>)
    ELSE run_level(remote, get_pickups_level(remote, req), depth)

(***************************************************************************)
(* The remote site of the model: documents, responses, and sites (what the *)
(* site answers to a POST, by the POST's 'ladeort').                       *)
(***************************************************************************)
HeaderRow == Row(None, None, <<>>)
SpacerRow == Row(None, None, <<Td("", <<>>)>>)
CaptionRow(type) == Row(type, "img.png", <<Td(type, <<>>)>>)
ScheduleRow(weekday, tokens, phrase) ==
    Row(None, None, <<Td(weekday, <<>>), Td("", tokens), Td(phrase, <<>>)>>)

Group(type, weekday, tokens, phrase) ==
    <<SpacerRow, CaptionRow(type), ScheduleRow(weekday, tokens, phrase),
      SpacerRow>>

Table1 ==
    <<HeaderRow>>
    \o Group("p1", "Mo", <<DateToken(1, "05.01.2024", FALSE),
                           DateToken(1, "19.01.2024", TRUE)>>, "14- taeglich")

Table23 ==
    <<HeaderRow>>
    \o Group("p2", "Fr", <<DateToken(1, "12.01.2024", FALSE)>>, "1x woechentlich")
    \o Group("p3", "Mo", <<DateToken(1, "05.01.2024", FALSE)>>, "14- taeglich")

\* an interval phrase that Interval does not know
TableMonthly ==
    <<HeaderRow>>
    \o Group("p1", "Mo", <<DateToken(1, "05.01.2024", FALSE)>>, "monatlich")

\* a last group of two rows
TableShort ==
    Table1 \o <<SpacerRow, CaptionRow("p2")>>

\* a group that parses, then one with an unknown interval phrase
TablePartial ==
    Table1
    \o Group("p2", "Fr", <<DateToken(1, "12.01.2024", FALSE)>>, "monatlich")

\* a date token with two commas, after one that parses
TableBadDate ==
    <<HeaderRow>>
    \o Group("p1", "Mo", <<DateToken(1, "05.01.2024", FALSE),
                           DateToken(2, "19.01.2024", FALSE)>>, "14- taeglich")

\* a date token whose text after the comma is no date
TableNoDate ==
    <<HeaderRow>>
    \o Group("p1", "Mo", <<DateToken(1, "Montag", TRUE)>>, "1x woechentlich")

Document(table, ladeort) == [table |-> table, ladeort |-> ladeort]

PickupLocations == {"A", "B"}

Selectors == {<<>>, <<"A">>, <<"A", "B">>, <<"B", "A">>}

Documents ==
    {Document(Found(t), Absent) :
        t \in {Table1, Table23, TableMonthly, TableShort, TablePartial,
               TableBadDate, TableNoDate}}
    \cup {Document(Absent, Found(o)) : o \in Selectors}
    \cup {Document(Absent, Absent), Document(Found(Table1), Found(<<"A", "B">>)),
          Document(Found(TableMonthly), Found(<<"B">>))}

Response(status_code, document) ==
    [status_code |-> status_code, document |-> document]

Responses ==
    {Response(200, d) : d \in Documents}
    \cup {Response(c, Document(Absent, Absent)) : c \in {404, 500}}
    \cup {Response(201, Document(Found(Table1), Absent))}

Sites == [PickupLocations \cup {None} -> Responses]

LocFenskeNord == << <<"0", "1">>, <<"F", "e", "n", "s", "k", "e", "s", "t", "r", ".">>,
                    <<"N", "o", "r", "d">> >>
LocFenskeList == << <<"0", "2">>, <<"F", "e", "n", "s", "k", "e", "s", "t", "r", ".">>,
                    <<"L", "i", "s", "t">> >>

\* The option values of the catalog for them
OptFenskeNord == Location_str(LocFenskeNord)
OptFenskeList == Location_str(LocFenskeList)

(***************************************************************************)
(* SpecResolver: one run of get_pickups against every site of the model,   *)
(* one action per level of _get_pickups.                                   *)
(***************************************************************************)
\* A Python dict with no entries
EmptyDict == <<>>

Municipalities == {"Hannover", "Garbsen"}

DirectoryIdle ==
    /\ PARAMS = [von |-> "A", bis |-> "Z"]
    /\ memo = EmptyDict
    /\ fetches = [m \in Municipalities |-> <<>>]
    /\ lastGet = <<>>
    /\ lastFind = <<>>
    /\ pinnedFind = <<>>

CacheIdle ==
    /\ today = 1
    /\ CACHE = EmptyDict
    /\ lastCached = <<>>

CliIdle == cliRun = <<>>

FramingIdle == rows = <<>> /\ framed = <<>>

\* The threads of the process that call get_locations
Threads == {1, 2}

ThreadIdle == [pc |-> "idle", municipality |-> None, gemeinde |-> None]

ThreadsIdle ==
    /\ threads = [t \in Threads |-> ThreadIdle]
    /\ memoSource = EmptyDict

HouseIdle == hnInput = <<>> /\ hnResult = <<>>

ResolverIdle ==
    /\ site = [l \in PickupLocations \cup {None} |->
                  Response(200, Document(Absent, Absent))]
    /\ option = <<>>
    /\ request = <<>>
    /\ pc = "done"
    /\ sent = <<>>
    /\ yielded = <<>>
    /\ outcome = [exc |-> None, args |-> <<>>]

\* get_pickups(location, house_number): the Request of the first level
get_pickups(location, house_number, municipality, pickup_location) ==
    LET hn == HouseNumber_from_string(house_number)
    IN  IF hn.exc # None THEN hn
        ELSE Ok(Request(location, hn.val, municipality, pickup_location))

\* The catalog option values of the runs: two plain ones, one with blanks
\* in every field, one with empty fields
OptBlanks ==
    <<" ", "0", "1", "@", "F", "e", "n", "s", "k", "e", " ", "s", "t", "r",
      ".", " ", "@", " ">>
OptEmptyFields == <<"@", "@">>

ResolverOptions == {OptFenskeNord, OptFenskeList, OptBlanks, OptEmptyFields}

InitResolver ==
    /\ site \in Sites
    /\ option \in ResolverOptions
    /\ request = <<get_pickups(Location_from_string(option).val,
                               <<"2", "5", "a">>, "Hannover", None).val>>
    /\ pc = "post"
    /\ sent = <<>>
    /\ yielded = <<>>
    /\ outcome = [exc |-> None, args |-> <<>>]
    /\ HouseIdle /\ DirectoryIdle /\ CacheIdle /\ CliIdle
    /\ FramingIdle /\ ThreadsIdle

\* One level of _get_pickups: it posts the request and, as its consumer
\* drives it, yields the table's Pickups, raises, or recurses.
GetPickupsLevel ==
    /\ pc = "post"
    /\ Len(sent) < MaxDepth
    /\ LET r == get_pickups_level(site, request[1])
       IN  /\ sent' = Append(sent, r.post)
           /\ yielded' = yielded \o r.pickups
           /\ IF r.exc # None \/ r.next = <<>>
              THEN /\ pc' = "done"
                   /\ outcome' = [exc |-> r.exc, args |-> r.args]
                   /\ request' = <<>>
              ELSE /\ pc' = "post"
                   /\ request' = r.next
                   /\ UNCHANGED outcome
    /\ UNCHANGED <<site, option, houseVars, directoryVars, cacheVars, cliVars,
                   framingVars, threadVars>>

\* The interpreter's recursion limit ends a run that is MaxDepth levels deep.
RecursionLimit ==
    /\ pc = "post"
    /\ Len(sent) >= MaxDepth
    /\ pc' = "done"
    /\ outcome' = [exc |-> "RecursionError", args |-> <<>>]
    /\ request' = <<>>
    /\ UNCHANGED <<site, option, sent, yielded, houseVars, directoryVars,
                   cacheVars, cliVars,
                   framingVars, threadVars>>

NextResolver == GetPickupsLevel \/ RecursionLimit

SpecResolver == InitResolver /\ [][NextResolver]_vars

\* The response to the request the run sent last.
LastResponse == site[sent[Len(sent)].ladeort]

\* The 'ladeort' of every request the run sent, in order.
SentLadeorte == [i \in 1..Len(sent) |-> sent[i].ladeort]

\* A response with a results table whose rows all parse.
IsGoodTable(response) ==
    /\ response.status_code = 200
    /\ response.document.table # Absent
    /\ parse_pickups(response.document).exc = None

\* The run met a selector page first, and every pickup point of the
\* selector answers with a results table.
FanOutCase ==
    /\ pc = "done"
    /\ site[None].status_code = 200
    /\ site[None].document.table = Absent
    /\ site[None].document.ladeort # Absent
    /\ site[None].document.ladeort[1] # <<>>
    /\ \A v \in Range(site[None].document.ladeort[1]) : IsGoodTable(site[v])

\* C1: fan-out aggregation.  When the first response holds no table but a
\* selector with the options v1..vn, the run sends one follow-up per option,
\* in selector order, with pickup_location = vi, and yields exactly the
\* concatenation, in selector order, of the pickups of every branch.
C1_FanOutAggregation ==
    FanOutCase =>
        LET options == site[None].document.ladeort[1]
        IN  /\ SentLadeorte = <<None>> \o options
            /\ yielded = Flatten([i \in 1..Len(options) |->
                             parse_pickups(site[options[i]].document).pickups])
            /\ outcome.exc = None

\* C2: a successful response with neither a results table nor a selector
\* ends the run with ScrapingError and with no other exception.
C2_NeitherIsScrapingError ==
    (/\ pc = "done"
     /\ sent # <<>>
     /\ Len(sent) < MaxDepth
     /\ LastResponse.status_code = 200
     /\ LastResponse.document.table = Absent
     /\ LastResponse.document.ladeort = Absent)
    => outcome.exc = "ScrapingError"

\* C9: a pickup lookup fails with HTTPError, carrying the response's body
\* and status code, if and only if the status is no 2xx status; the body of
\* a failed response is not parsed.
C9_TransportStatus ==
    (pc = "done" /\ sent # <<>> /\ outcome.exc # "RecursionError") =>
        LET response == LastResponse
            failed == response.status_code \notin 200..299
        IN  /\ (outcome.exc = "HTTPError") <=> failed
            /\ failed => outcome.args = <<response.document,
                                          response.status_code>>

\* C12: the 'strasse' parameter of every request of a run equals, character
\* for character, the option value its Location was made from, and a
\* follow-up request differs from the request before it in 'ladeort' only.
C12_VerbatimEcho ==
    /\ \A i \in 1..Len(sent) : sent[i].strasse = option
    /\ \A i \in 2..Len(sent) :
          /\ sent[i] = [sent[i - 1] EXCEPT !.ladeort = sent[i].ladeort]
          /\ sent[i].ladeort \in Range(site[sent[i - 1].ladeort].document.ladeort[1])
    /\ request # <<>> =>
          /\ request[1].location = Location_from_string(option).val
          /\ request[1].house_number = [number |-> 25, suffix |-> <<"a">>]
          /\ request[1].municipality = "Hannover"

\* C12 witness: a follow-up request was sent for an option value with
\* blanks in its fields.
C12_Witness ==
    /\ Len(sent) >= 2
    /\ option = OptBlanks
    /\ sent[2].ladeort = "A"

\* C13: whatever the remote site answers, a run ends by the resolver's own
\* doing, after a bounded number of requests: its recursion never grows
\* until the interpreter's recursion limit stops it.
C13_DefensiveBound ==
    /\ Len(sent) <= MaxDepth
    /\ pc = "done" => outcome.exc # "RecursionError"

\* A date token that is not '<weekday>, <DD.MM.YYYY>' with an optional '*'.
MalformedDate(token) ==
    \/ token.commas # 1
    \/ token.body \notin {"05.01.2024", "12.01.2024", "19.01.2024"}

\* An interval phrase that is none of the enumerated Interval values.
UnknownInterval(phrase) == phrase \notin {"14- taeglich", "1x woechentlich"}

\* The schedule row of the i-th group of four rows after the header.
ScheduleOf(table, i) == table[4 * i]

\* Whether the schedule row has a malformed date token or an unknown
\* interval phrase.
OffendingRow(row) ==
    /\ Len(row.tds) = 3
    /\ \/ UnknownInterval(row.tds[3].text)
       \/ \E k \in 1..Len(row.tds[2].contents) :
              MalformedDate(row.tds[2].contents[k])

\* The complete groups of the table whose schedule row offends.
OffendingGroups(table) ==
    {i \in 1..((Len(table) - 1) \div 4) : OffendingRow(ScheduleOf(table, i))}

\* Whether the response is a results table with an offending row group.
IsOffendingTable(response) ==
    /\ response.status_code = 200
    /\ response.document.table # Absent
    /\ OffendingGroups(response.document.table[1]) # {}

\* The least element of a non-empty set of numbers.
Least(S) == CHOOSE i \in S : \A j \in S : i <= j

\* C15: a results table with a row group whose interval phrase is unknown
\* or whose date token is malformed ends the run with a parsing failure
\* that reaches the caller: the run yields the Pickups of the groups before
\* the offending one and nothing of it or after it, no Pickup is without an
\* interval, and no follow-up request is sent.
C15_StrictRowParsing ==
    \A i \in 1..Len(sent) :
        IsOffendingTable(site[sent[i].ladeort]) =>
            /\ i = Len(sent)
            /\ pc = "done"
            /\ outcome.exc = "ValueError"
            /\ Len(yielded) =
                  Least(OffendingGroups(
                            site[sent[i].ladeort].document.table[1])) - 1
            /\ \A k \in 1..Len(yielded) :
                  yielded[k].interval \in {"FORTNIGHTLY", "WEEKLY"}

\* C15 witness: a follow-up request was answered with a table whose second
\* group has an unknown interval, beside a selector; the run yielded the
\* first group's Pickup and failed.
C15_Witness ==
    /\ pc = "done"
    /\ Len(sent) = 2
    /\ LastResponse.document.table = Found(TablePartial)
    /\ Len(yielded) = 1
    /\ outcome.exc = "ValueError"

\* C16: once a request of a run is answered with a failing status, the run
\* fails with the HTTPError of that response and sends no further request;
\* no request is sent twice within one run.
C16_NoRetry ==
    /\ \A i \in 1..Len(sent) :
          site[sent[i].ladeort].status_code \notin 200..299 =>
              /\ i = Len(sent)
              /\ pc = "done"
              /\ outcome = [exc |-> "HTTPError",
                            args |-> <<site[sent[i].ladeort].document,
                                       site[sent[i].ladeort].status_code>>]
    /\ \A i, j \in 1..Len(sent) : i < j => sent[i] # sent[j]

\* A successful response with no table and a selector without options.
IsEmptySelectorPage(response) ==
    /\ response.status_code = 200
    /\ response.document.table = Absent
    /\ response.document.ladeort = Found(<<>>)

\* C20: a successful response with no results table and a selector with no
\* options ends the run with the ScrapingError raised for the missing table,
\* with its message and the document; the run yields no Pickup and sends no
\* follow-up request.
C20_EmptySelector ==
    \A i \in 1..Len(sent) :
        IsEmptySelectorPage(site[sent[i].ladeort]) =>
            /\ i = Len(sent)
            /\ pc = "done"
            /\ outcome = [exc |-> "ScrapingError",
                          args |-> <<"Could not find table element",
                                     site[sent[i].ladeort].document>>]
            /\ yielded = <<>>

\* C20 witness: the follow-up request for a pickup point was answered with
\* an empty selector.
C20_Witness ==
    /\ pc = "done"
    /\ Len(sent) = 2
    /\ IsEmptySelectorPage(LastResponse)
    /\ outcome.exc = "ScrapingError"

(***************************************************************************)
(* The location directory (aha/api.py).  A listing response is             *)
(*   [status_code, strasse |-> what document.find(id="strasse") finds:     *)
(*    Absent, or Found(the values of the select's options)].               *)
(***************************************************************************)
RaiseWith(e, args) == [exc |-> e, args |-> args]

\* The body of _get_locations once the response is there: the Locations it
\* yields, in document order, or the exception it raises
RECURSIVE locations_of_options(_)
locations_of_options(options) ==
    IF options = <<>> THEN Ok(<<>>)
    ELSE LET location == Location_from_string(Head(options))
             rest == locations_of_options(Tail(options))
         IN  IF location.exc # None THEN location
             ELSE IF rest.exc # None THEN rest
             ELSE Ok(<<location.val>> \o rest.val)

\* Whether _get_locations takes the response's status for a failure
listing_failed(response) == response.status_code # 200

get_locations_uncached(response) ==
    IF listing_failed(response)
    THEN RaiseWith("HTTPError", <<response.strasse, response.status_code>>)
    ELSE IF response.strasse = Absent
    THEN RaiseWith("ScrapingError",
                   <<"Could not find select element with id strasse">>)
    ELSE LET yielded_locations == locations_of_options(response.strasse[1])
         IN  IF yielded_locations.exc # None
             THEN RaiseWith(yielded_locations.exc, <<>>)
             ELSE Ok(Range(yielded_locations.val))

\* A cache that never holds a result
memo_never_hit(cache, municipality) == FALSE

\* Whether the cache of get_locations holds a result for the municipality
memo_hit(cache, municipality) == municipality \in DOMAIN cache

\* get_locations(municipality) under functools.cache, with the response the
\* remote site gives if it is asked: what the call gives (result), whether
\* it issued the GET (fetched), with which query parameters (params), and
\* the cache after it.  A call that raises stores nothing.
get_locations(cache, params, municipality, response) ==
    IF memo_hit(cache, municipality)
    THEN [result |-> Ok(cache[municipality]), fetched |-> FALSE,
          params |-> params, cache |-> cache]
    ELSE LET sentParams == [von |-> params.von, bis |-> params.bis,
                            gemeinde |-> municipality]
             result == get_locations_uncached(response)
         IN  [result |-> result, fetched |-> TRUE, params |-> sentParams,
              cache |-> IF result.exc # None THEN cache
                        ELSE [m \in DOMAIN cache \cup {municipality} |->
                                 IF m = municipality THEN result.val
                                 ELSE cache[m]]]

\* The survivors of find_location's filter, in the order the frozenset is
\* iterated
Survivors(iteration, name, district) ==
    LET Keep(location) ==
            /\ re_match(street_regex(name), location[2])
            /\ district = <<>> \/ location[3] = district[1]
    IN  SelectSeq(iteration, Keep)

\* The survivors as they come, without sorted()
CandidatesUnsorted(iteration, name, district) ==
    Survivors(iteration, name, district)

\* The candidates find_location unpacks: sorted(...) of the survivors
Candidates(iteration, name, district) ==
    sorted(Survivors(iteration, name, district))

\* find_location(name, district=district) over the catalog, iterated in the
\* given order.  district is <<>> for None, <<d>> for the district d.
find_location(iteration, name, district) ==
    LET candidates == Candidates(iteration, name, district)
    IN  IF candidates = <<>> THEN RaiseWith("NoLocationFound", <<name>>)
        ELSE LET location == Head(candidates)
                 superfluous == Tail(candidates)
             IN  IF superfluous # <<>>
                 THEN RaiseWith("AmbiguousLocations",
                                <<location>> \o superfluous)
                 ELSE Ok(location)

\* The orders in which a set can be iterated
Orderings(S) ==
    {f \in [1..Cardinality(S) -> S] :
        \A i, j \in 1..Cardinality(S) : i # j => f[i] # f[j]}

(***************************************************************************)
(* The catalogs of the model.                                              *)
(***************************************************************************)
LocHauptstr == << <<"0", "3">>, <<"H", "a", "u", "p", "t", "s", "t", "r", ".">>,
                  <<"L", "i", "s", "t">> >>

OptHauptstr == Location_str(LocHauptstr)
\* a Location whose name sorts before 'Hauptstr.' and whose id sorts after
LocHaupt == << <<"0", "4">>, <<"H", "a", "u", "p", "t">>, <<"L", "i", "s", "t">> >>
OptHaupt == Location_str(LocHaupt)
\* an option value with two fields only
OptTwoFields == <<"0", "4", "@", "H", "a", "u", "p", "t">>

ListingResponse(status_code, strasse) ==
    [status_code |-> status_code, strasse |-> strasse]

ListingResponses ==
    {ListingResponse(200, Found(o)) :
        o \in {<<>>, <<OptFenskeNord, OptFenskeList>>,
               <<OptFenskeList, OptHauptstr, OptFenskeNord>>,
               <<OptHauptstr, OptHauptstr>>, <<OptHauptstr, OptTwoFields>>,
               <<OptHaupt, OptHauptstr>>}}
    \cup {ListingResponse(200, Absent), ListingResponse(404, Absent),
          ListingResponse(201, Found(<<OptHauptstr>>))}

Queries ==
    { <<"F", "e", "n", "s", "k", "e", "s", "t", "r", ".">>,
      <<"H", "a", "u", "p", "t">>,
      <<"h", "a", "u", "p", "t", "s", "t", "r", "a", "s", "s", "e">>,
      <<"N", "o", "r", "d">> }

\* the district argument: <<>> is None
Districts == {<<>>, << <<"L", "i", "s", "t">> >>}

(***************************************************************************)
(* SpecFind: find_location calls in one process, against a remote site     *)
(* that may answer each listing request differently.                       *)
(***************************************************************************)
\* The municipality of find_location's callers (cli.py, wsgi.py and
\* functions.py pass none): its default, 'Hannover'.
FindMunicipalities == {"Hannover"}

\* The record of successful listing fetches after a get_locations call.
Fetched(record, municipality, got) ==
    IF got.fetched /\ got.result.exc = None
       /\ Len(record[municipality]) < MaxFetches
    THEN [record EXCEPT ![municipality] = Append(@, got.result.val)]
    ELSE record

\* What the remote site may answer to a listing request for the
\* municipality; when get_locations does not ask, no response matters.
AskedResponses(cache, municipality) ==
    IF memo_hit(cache, municipality)
    THEN {ListingResponse(200, Absent)}
    ELSE ListingResponses

\* find_location(name, district=district, municipality=municipality): it
\* takes the catalog from get_locations, which asks the remote site when the
\* municipality is not memoized, and resolves the name in it.
FindLocation ==
    \E name \in Queries, district \in Districts,
       municipality \in FindMunicipalities :
      \E response \in AskedResponses(memo, municipality) :
        LET got == get_locations(memo, PARAMS, municipality, response)
            call == [name |-> name, district |-> district,
                     municipality |-> municipality]
        IN  /\ memo' = got.cache
            /\ PARAMS' = got.params
            /\ fetches' = Fetched(fetches, municipality, got)
            /\ IF got.result.exc # None
               THEN lastFind' = <<[call |-> call, catalog |-> <<>>,
                                   result |-> got.result]>>
               ELSE \E iteration \in Orderings(got.result.val) :
                       lastFind' =
                           <<[call |-> call, catalog |-> <<got.result.val>>,
                              result |-> find_location(iteration, name,
                                                       district)]>>
            /\ pinnedFind' \in {pinnedFind, lastFind}
            /\ UNCHANGED <<lastGet, resolverVars, houseVars, cacheVars,
                           cliVars,
                           framingVars, threadVars>>

InitFind ==
    DirectoryIdle /\ ResolverIdle /\ HouseIdle /\ CacheIdle /\ CliIdle
    /\ FramingIdle /\ ThreadsIdle

NextFind == FindLocation

SpecFind == InitFind /\ [][NextFind]_vars

\* The last find_location call had a catalog to search.
FindSearched == lastFind # <<>> /\ lastFind[1].catalog # <<>>

\* The catalog entries whose name the call's pattern matches and, if a
\* district is given, whose district equals it.
MatchingEntries(found) ==
    {location \in found.catalog[1] :
        /\ re_match(street_regex(found.call.name), location[2])
        /\ found.call.district = <<>>
           \/ location[3] = found.call.district[1]}

\* A list of Locations holds each of them once, in ascending order.
StrictlyAscending(list) ==
    \A i, j \in 1..Len(list) : i < j => TupleLess(list[i], list[j])

\* C3: find_location fails with NoLocationFound(name) when no catalog entry
\* matches, returns the entry when exactly one matches, and fails with
\* AmbiguousLocations carrying every matching entry once, in sorted order,
\* when more than one matches; a repeated call with the same catalog and
\* query gives the same result.
C3_FindLocationTrichotomy ==
    FindSearched =>
        LET found == lastFind[1]
            S == MatchingEntries(found)
        IN  /\ S = {} =>
                  found.result = RaiseWith("NoLocationFound",
                                           <<found.call.name>>)
            /\ Cardinality(S) = 1 => found.result = Ok(CHOOSE l \in S : TRUE)
            /\ Cardinality(S) > 1 =>
                  /\ found.result.exc = "AmbiguousLocations"
                  /\ Range(found.result.args) = S
                  /\ Len(found.result.args) = Cardinality(S)
                  /\ StrictlyAscending(found.result.args)
            /\ (/\ pinnedFind # <<>>
                /\ pinnedFind[1].call = found.call
                /\ pinnedFind[1].catalog = found.catalog)
               => pinnedFind[1].result = found.result

\* C3 witness: an ambiguous query, asked a second time of the same catalog.
C3_Witness ==
    /\ FindSearched
    /\ lastFind[1].result.exc = "AmbiguousLocations"
    /\ Len(lastFind[1].result.args) >= 2
    /\ pinnedFind # <<>>
    /\ pinnedFind[1].call = lastFind[1].call
    /\ pinnedFind[1].catalog = lastFind[1].catalog

\* The Locations the last find_location call gave its caller: the one it
\* returned or the candidates of AmbiguousLocations.
FoundLocations ==
    IF ~FindSearched THEN {}
    ELSE IF lastFind[1].result.exc = None THEN {lastFind[1].result.val}
    ELSE IF lastFind[1].result.exc = "AmbiguousLocations"
    THEN Range(lastFind[1].result.args)
    ELSE {}

\* C4: a catalog location survives find_location's filter only if the query
\* pattern matches its whole name, from start to end.
C4_FullMatchOnly ==
    \A location \in FoundLocations :
        re_fullmatch(street_regex(lastFind[1].call.name), location[2])

\* C11: Locations are ordered primarily by name: the candidates that
\* AmbiguousLocations carries are ascending by name, whatever their ids.
C11_OrderedByName ==
    (FindSearched /\ lastFind[1].result.exc = "AmbiguousLocations") =>
        LET candidates == lastFind[1].result.args
        IN  \A i, j \in 1..Len(candidates) :
                i < j => ~StrLess(candidates[j][2], candidates[i][2])

(***************************************************************************)
(* SpecDirectory: get_locations calls in one process, one after the other, *)
(* for either municipality.                                                *)
(***************************************************************************)
\* get_locations(municipality=municipality)
GetLocations ==
    \E municipality \in Municipalities :
      \E response \in AskedResponses(memo, municipality) :
        LET got == get_locations(memo, PARAMS, municipality, response)
        IN  /\ memo' = got.cache
            /\ PARAMS' = got.params
            /\ fetches' = Fetched(fetches, municipality, got)
            /\ lastGet' = <<[municipality |-> municipality,
                             result |-> got.result,
                             fetched |-> got.fetched,
                             before |-> memo]>>
            /\ UNCHANGED <<lastFind, pinnedFind, resolverVars, houseVars,
                           cacheVars, cliVars,
                           framingVars, threadVars>>

InitDirectory ==
    DirectoryIdle /\ ResolverIdle /\ HouseIdle /\ CacheIdle /\ CliIdle
    /\ FramingIdle /\ ThreadsIdle

NextDirectory == GetLocations

SpecDirectory == InitDirectory /\ [][NextDirectory]_vars

\* C7: at most one listing fetch succeeds per municipality; once
\* get_locations(M) has succeeded, every later get_locations(M) returns the
\* same set without a request, and no call, for M or for another
\* municipality, invalidates or changes what is memoized.
C7_CatalogMemoization ==
    /\ \A m \in Municipalities : Len(fetches[m]) <= 1
    /\ \A m \in DOMAIN memo : fetches[m] = <<memo[m]>>
    /\ lastGet # <<>> =>
          LET call == lastGet[1]
              m == call.municipality
          IN  /\ \A other \in DOMAIN call.before :
                    other \in DOMAIN memo /\ memo[other] = call.before[other]
              /\ m \in DOMAIN call.before =>
                    /\ ~call.fetched
                    /\ call.result = Ok(fetches[m][1])
              /\ call.result.exc = None => call.result.val = fetches[m][1]

\* C7 witness: a call served from the memo while both municipalities are
\* memoized, with different catalogs.
C7_Witness ==
    /\ lastGet # <<>>
    /\ ~lastGet[1].fetched
    /\ lastGet[1].result.exc = None
    /\ DOMAIN memo = Municipalities
    /\ memo["Hannover"] # memo["Garbsen"]

(***************************************************************************)
(* The per-day pickup cache (aha/functions.py).  CACHE maps a day to a     *)
(* dict of cached values.  A cached value is the list of Pickups of one    *)
(* resolver run; the model keeps with it which POSTs that run issued       *)
(* (sent) and on which day it ran (fetchedOn).                             *)
(***************************************************************************)
\* dict[key] = value
Put(dict, key, value) ==
    [k \in DOMAIN dict \cup {key} |-> IF k = key THEN value ELSE dict[k]]

\* A new day's dict is added and the other days' entries are kept
cache_for_day_kept(cache, day) ==
    IF day \in DOMAIN cache THEN cache ELSE Put(cache, day, EmptyDict)

\* The first try of get_cached_pickups: CACHE after it.  A day that is no
\* key of CACHE clears it and gets an empty dict.
cache_for_day(cache, day) ==
    IF day \in DOMAIN cache THEN cache ELSE Put(EmptyDict, day, EmptyDict)

\* The key under which get_cached_pickups stores and looks up a value
cache_key(location, house_number) == location

\* What a call to get_cached_pickups comes to: CACHE after it, what it
\* returns or raises, and whether it ran the resolver.
Cached(cache, result, fetched) ==
    [cache |-> cache, result |-> result, fetched |-> fetched]

\* A store that keeps what a run yielded before it raised
store_run_partial(dayCache, day, key, run) ==
    Cached([dayCache EXCEPT ![day] =
               Put(@, key, [pickups |-> run.pickups, sent |-> run.sent,
                            fetchedOn |-> day])],
           IF run.exc # None THEN RaiseWith(run.exc, run.args)
           ELSE Ok([pickups |-> run.pickups, sent |-> run.sent,
                    fetchedOn |-> day]),
           TRUE)

\* locations[location] = pickups = list(...): a run that raises stores
\* nothing
store_run(dayCache, day, key, run) ==
    IF run.exc # None
    THEN Cached(dayCache, RaiseWith(run.exc, run.args), TRUE)
    ELSE Cached([dayCache EXCEPT ![day] =
                    Put(@, key, [pickups |-> run.pickups, sent |-> run.sent,
                                 fetchedOn |-> day])],
                Ok([pickups |-> run.pickups, sent |-> run.sent,
                    fetchedOn |-> day]),
                TRUE)

\* get_pickups(location, house_number) driven by list()
lookup(dayCache, day, key, first, remote) ==
    IF first.exc # None
    THEN Cached(dayCache, RaiseWith(first.exc, <<>>), FALSE)
    ELSE store_run(dayCache, day, key, get_pickups_run(remote, first.val, 0))

\* The second try of get_cached_pickups
cached_or_lookup(dayCache, day, key, location, house_number, remote) ==
    IF key \in DOMAIN dayCache[day]
    THEN Cached(dayCache, Ok(dayCache[day][key]), FALSE)
    ELSE lookup(dayCache, day, key,
                get_pickups(location, house_number, "Hannover", None), remote)

\* get_cached_pickups(location, house_number) on the given day, with the
\* remote site a lookup would meet
get_cached_pickups(cache, day, location, house_number, remote) ==
    cached_or_lookup(cache_for_day(cache, day), day,
                     cache_key(location, house_number), location,
                     house_number, remote)

(***************************************************************************)
(* SpecCache: get_cached_pickups calls in one process while the calendar   *)
(* day moves on.                                                           *)
(***************************************************************************)
ConstantSite(response) == [l \in PickupLocations \cup {None} |-> response]

\* The remote sites a whole lookup (a cached one, or main's) meets in the
\* model
LookupSites ==
    {ConstantSite(Response(200, Document(Found(Table1), Absent))),
     ConstantSite(Response(200, Document(Found(Table23), Absent))),
     ConstantSite(Response(200, Document(Found(TableMonthly), Absent))),
     ConstantSite(Response(200, Document(Found(TablePartial), Absent))),
     ConstantSite(Response(404, Document(Absent, Absent))),
     ConstantSite(Response(200, Document(Absent, Found(<<>>)))),
     ConstantSite(Response(200, Document(Absent, Absent))),
     [ConstantSite(Response(200, Document(Found(Table23), Absent)))
         EXCEPT ![None] = Response(200, Document(Absent, Found(<<"A", "B">>)))]}

CacheLocations == {LocFenskeNord, LocFenskeList}

CacheHouseNumbers == {<<"2", "5", "a">>, <<"7">>}

\* date.today() moves on to the next day
NextDay ==
    /\ today < MaxDay
    /\ today' = today + 1
    /\ UNCHANGED <<CACHE, lastCached, resolverVars, houseVars, directoryVars,
                   cliVars,
                   framingVars, threadVars>>

\* get_cached_pickups(location, house_number)
GetCachedPickups ==
    \E location \in CacheLocations, house_number \in CacheHouseNumbers,
       remote \in LookupSites :
        LET got == get_cached_pickups(CACHE, today, location, house_number,
                                      remote)
        IN  /\ CACHE' = got.cache
            /\ lastCached' = <<[location |-> location,
                                house_number |-> house_number,
                                day |-> today,
                                cleared |-> {d \in DOMAIN CACHE :
                                                d # today
                                                /\ CACHE[d] # EmptyDict},
                                result |-> got.result,
                                fetched |-> got.fetched]>>
            /\ UNCHANGED <<today, resolverVars, houseVars, directoryVars,
                           cliVars,
                           framingVars, threadVars>>

InitCache ==
    CacheIdle /\ ResolverIdle /\ HouseIdle /\ DirectoryIdle /\ CliIdle
    /\ FramingIdle /\ ThreadsIdle

NextCache == NextDay \/ GetCachedPickups

SpecCache == InitCache /\ [][NextCache]_vars

\* C5: the value get_cached_pickups returns for (location, house number)
\* comes from a resolver run issued for exactly that location and that
\* house number.
C5_KeyedByLocationAndHouseNumber ==
    (lastCached # <<>> /\ lastCached[1].result.exc = None) =>
        LET call == lastCached[1]
            asked == get_pickups(call.location, call.house_number,
                                 "Hannover", None).val
        IN  call.result.val.sent[1] = Request_to_json(asked)

\* C6: the cache holds entries of at most one day, every entry was fetched
\* on the day it is stamped with, a call leaves only its own day in the
\* cache, and what a call returns was fetched on the day of the call.
C6_DayStamp ==
    /\ Cardinality(DOMAIN CACHE) <= 1
    /\ \A d \in DOMAIN CACHE :
          /\ d <= today
          /\ \A k \in DOMAIN CACHE[d] : CACHE[d][k].fetchedOn = d
    /\ lastCached # <<>> =>
          /\ DOMAIN CACHE = {lastCached[1].day}
          /\ lastCached[1].result.exc = None =>
                lastCached[1].result.val.fetchedOn = lastCached[1].day

\* C6 witness: the first call of day 2 found entries of day 1, discarded
\* them and returned pickups fetched on day 2.
C6_Witness ==
    /\ lastCached # <<>>
    /\ lastCached[1].day = 2
    /\ lastCached[1].cleared = {1}
    /\ lastCached[1].fetched
    /\ lastCached[1].result.exc = None
    /\ lastCached[1].result.val.fetchedOn = 2

\* The day's dict as a get_cached_pickups call on that day finds it, once
\* another day's entries are discarded.
DayDict(cache, day) == IF day \in DOMAIN cache THEN cache[day] ELSE EmptyDict

\* C18: a get_cached_pickups call whose resolver run fails raises the
\* error, stores nothing and leaves the entries of the day as they are; an
\* entry is stored only with the whole list of a run that succeeded; a
\* call that finds no entry for its key runs the resolver.
C18_FailedLookupNotCached ==
    [][(today' = today /\ lastCached' # <<>>) =>
          LET call == lastCached'[1]
              before == DayDict(CACHE, today)
              after == DayDict(CACHE', today)
          IN  /\ call.result.exc # None =>
                    /\ call.fetched
                    /\ after = before
                    /\ call.location \notin DOMAIN after
              /\ after # before =>
                    /\ call.result.exc = None
                    /\ after = Put(before, call.location, call.result.val)
              /\ call.location \notin DOMAIN before => call.fetched
              /\ call.location \in DOMAIN before =>
                    /\ ~call.fetched
                    /\ call.result = Ok(before[call.location])]_vars

\* C18 witness: a lookup that failed over a row it could not parse, on a
\* day for which the other location is cached.
C18_Witness ==
    /\ lastCached # <<>>
    /\ lastCached[1].result.exc = "ValueError"
    /\ lastCached[1].fetched
    /\ today \in DOMAIN CACHE
    /\ DOMAIN CACHE[today] = CacheLocations \ {lastCached[1].location}

(***************************************************************************)
(* The command line program (aha/cli.py).  main gives Ok(code) when it     *)
(* returns the exit code, Raise(e) when the exception e escapes it.        *)
(***************************************************************************)
\* print(dumps([p.to_json() for p in pickups], ...)); return 0: the
\* comprehension drives the generator, outside of any try statement
main_print(run) == IF run.exc # None THEN Raise(run.exc) ELSE Ok(0)

\* try: pickups = get_pickups(location, args.houseno): the call converts the
\* house number and creates the generator; the handlers see what the call
\* itself raises.  The ScrapingError handler reads error.html, which a
\* ScrapingError does not have.
main_lookup(call, remote) ==
    IF call.exc = "HTTPError" THEN Ok(3)
    ELSE IF call.exc = "ScrapingError" THEN Raise("AttributeError")
    ELSE IF call.exc # None THEN Raise(call.exc)
    ELSE main_print(get_pickups_run(remote, call.val, 0))

\* try: location = find_location(args.street, district=args.district)
main_found(found, houseno, remote) ==
    IF found.exc = "NoLocationFound" THEN Ok(1)
    ELSE IF found.exc = "AmbiguousLocations" THEN Ok(2)
    ELSE IF found.exc # None THEN Raise(found.exc)
    ELSE main_lookup(get_pickups(found.val, houseno, "Hannover", None),
                     remote)

\* What find_location gives once get_locations has answered
located(got, iteration, name, district) ==
    IF got.result.exc # None THEN got.result
    ELSE find_location(iteration, name, district)

\* The municipality main hands to find_location and get_pickups: none, so
\* both take their default
main_municipality(args) == "Hannover"

\* How the resolver run of main ended, for the record of the run: the
\* exception (None: it returned), or "NotRun"
RunOutcome(found, houseno, remote) ==
    IF found.exc # None THEN "NotRun"
    ELSE IF get_pickups(found.val, houseno, "Hannover", None).exc # None
    THEN "NotRun"
    ELSE get_pickups_run(remote,
                         get_pickups(found.val, houseno, "Hannover", None).val,
                         0).exc

(***************************************************************************)
(* SpecCli: one run of main in a fresh process.                            *)
(***************************************************************************)
CliArgs ==
    [street : Queries, houseno : CacheHouseNumbers \cup {<<"a">>},
     district : Districts, municipality : Municipalities]

\* The 'gemeinde' of the request main's get_pickups call builds, if it
\* builds one
posted_gemeinde(call) ==
    IF call.exc # None THEN <<>> ELSE <<Request_to_json(call.val).gemeinde>>

main_posted(found, houseno) ==
    IF found.exc # None THEN <<>>
    ELSE posted_gemeinde(get_pickups(found.val, houseno, "Hannover", None))

CliRecord(args, got, found, remote) ==
    [args |-> args,
     gemeinde |-> got.params.gemeinde,
     posted |-> main_posted(found, args.houseno),
     found |-> found.exc,
     ran |-> RunOutcome(found, args.houseno, remote),
     result |-> main_found(found, args.houseno, remote)]

Main ==
    /\ cliRun = <<>>
    /\ \E args \in CliArgs, response \in ListingResponses,
          remote \in LookupSites :
        LET got == get_locations(memo, PARAMS, main_municipality(args),
                                 response)
        IN  /\ memo' = got.cache
            /\ PARAMS' = got.params
            /\ fetches' = Fetched(fetches, main_municipality(args), got)
            /\ \E iteration \in Orderings(IF got.result.exc = None
                                          THEN got.result.val ELSE {}) :
                  cliRun' = <<CliRecord(args, got,
                                        located(got, iteration, args.street,
                                                args.district),
                                        remote)>>
    /\ UNCHANGED <<lastGet, lastFind, pinnedFind, resolverVars, houseVars,
                   cacheVars,
                   framingVars, threadVars>>

InitCli ==
    CliIdle /\ ResolverIdle /\ HouseIdle /\ DirectoryIdle /\ CacheIdle
    /\ FramingIdle /\ ThreadsIdle

NextCli == Main

SpecCli == InitCli /\ [][NextCli]_vars

\* C8: main returns 0 when location resolution and pickup retrieval
\* succeed, 1 on NoLocationFound, 2 on AmbiguousLocations, 3 when the pickup
\* lookup fails with HTTPError and 4 when it fails with ScrapingError; no
\* exception escapes main in these five outcomes.
C8_ExitCodes ==
    cliRun # <<>> =>
        LET run == cliRun[1]
        IN  /\ run.found = "NoLocationFound" => run.result = Ok(1)
            /\ run.found = "AmbiguousLocations" => run.result = Ok(2)
            /\ run.ran = None => run.result = Ok(0)
            /\ run.ran = "HTTPError" => run.result = Ok(3)
            /\ run.ran = "ScrapingError" => run.result = Ok(4)

\* C17: the municipality of the command line is the municipality of the
\* run: the catalog is requested with it and the pickup request carries it.
C17_MunicipalityOption ==
    cliRun # <<>> =>
        /\ cliRun[1].gemeinde = cliRun[1].args.municipality
        /\ \A g \in Range(cliRun[1].posted) :
              g = cliRun[1].args.municipality

(***************************************************************************)
(* SpecHouse: HouseNumber.from_string applied to every string of at most   *)
(* MaxHouseLen characters over HouseChars.                                 *)
(***************************************************************************)
HouseChars == {"0", "2", "5", "7", "a", "b", "-"}

\* The caller types one more character of the house number.
TypeHouseChar ==
    /\ Len(hnInput) < MaxHouseLen
    /\ \E c \in HouseChars : hnInput' = Append(hnInput, c)
    /\ hnResult' = <<>>
    /\ UNCHANGED <<resolverVars, directoryVars, cacheVars, cliVars,
                   framingVars, threadVars>>

\* HouseNumber.from_string(hnInput)
FromString ==
    /\ hnResult = <<>>
    /\ hnResult' = <<HouseNumber_from_string(hnInput)>>
    /\ UNCHANGED <<hnInput, resolverVars, directoryVars, cacheVars, cliVars,
                   framingVars, threadVars>>

InitHouse ==
    HouseIdle /\ ResolverIdle /\ DirectoryIdle /\ CacheIdle /\ CliIdle
    /\ FramingIdle /\ ThreadsIdle

NextHouse == TypeHouseChar \/ FromString

SpecHouse == InitHouse /\ [][NextHouse]_vars

\* The length of the longest prefix of string that holds only digits.
DigitRunLength(string) ==
    CHOOSE n \in 0..Len(string) :
        /\ \A i \in 1..n : isdigit(string[i])
        /\ n = Len(string) \/ ~isdigit(string[n + 1])

\* The length of the run of ASCII letters of string that starts right after
\* its first n characters.
LetterRunLength(string, n) ==
    CHOOSE m \in 0..(Len(string) - n) :
        /\ \A i \in (n + 1)..(n + m) : string[i] \in ascii_letters
        /\ n + m = Len(string) \/ string[n + m + 1] \notin ascii_letters

\* C10: for a string that starts with a digit, from_string gives as number
\* the value of the leading run of digits and as suffix exactly the run of
\* letters that immediately follows it; what comes after is discarded.
C10_HouseNumberSplit ==
    (hnResult # <<>> /\ hnInput # <<>> /\ isdigit(hnInput[1])) =>
        LET n == DigitRunLength(hnInput)
            m == LetterRunLength(hnInput, n)
        IN  hnResult[1] = Ok([number |-> int(SubSeq(hnInput, 1, n)),
                              suffix |-> SubSeq(hnInput, n + 1, n + m)])

(***************************************************************************)
(* SpecFraming: parse_pickups, driven to its end, over every table of at   *)
(* most MaxRows rows after the header row.                                 *)
(***************************************************************************)
GoodSchedule ==
    ScheduleRow("Mo", <<DateToken(1, "05.01.2024", FALSE)>>, "14- taeglich")

FramingRows == {SpacerRow, CaptionRow("p1"), CaptionRow("p2"), GoodSchedule}

\* list(parse_pickups(document)) for the document with the table: the
\* Pickups, the exception, and whether frames logged its warning (it does
\* when the loop comes to its end)
Framed(parsed, warns) ==
    [pickups |-> parsed.pickups, exc |-> parsed.exc,
     warned |-> parsed.exc = None /\ warns]

\* The site's table has one more row.
AppendRow ==
    /\ Len(rows) < MaxRows + 1
    /\ \E row \in FramingRows : rows' = Append(rows, row)
    /\ framed' = <<>>
    /\ UNCHANGED <<resolverVars, houseVars, directoryVars, cacheVars, cliVars,
                   threadVars>>

\* parse_pickups(document), driven to its end
ParsePickups ==
    /\ framed = <<>>
    /\ framed' = <<Framed(parse_pickups(Document(Found(rows), Absent)),
                          frames_warns(SliceFrom(rows, 1), 4))>>
    /\ UNCHANGED <<rows, resolverVars, houseVars, directoryVars, cacheVars,
                   cliVars, threadVars>>

InitFraming ==
    /\ rows = <<HeaderRow>>
    /\ framed = <<>>
    /\ ResolverIdle /\ HouseIdle /\ DirectoryIdle /\ CacheIdle /\ CliIdle
    /\ ThreadsIdle

NextFraming == AppendRow \/ ParsePickups

SpecFraming == InitFraming /\ [][NextFraming]_vars

\* The number of rows after the header row.
RowCount == Len(rows) - 1

\* Every complete group of four rows after the header has a caption row
\* second and a schedule row third.
GroupsWellFormed ==
    \A i \in 1..(RowCount \div 4) :
        /\ rows[4 * i - 1].strong # None
        /\ rows[4 * i - 1].img # None
        /\ rows[4 * i] = GoodSchedule

\* C14: the rows after the header are consumed in consecutive groups of
\* four; each complete group gives one Pickup, made from its second and its
\* third row, in document order; a last group of one to three rows gives no
\* Pickup and no error, only the warning.
C14_RowFraming ==
    (framed # <<>> /\ GroupsWellFormed) =>
        /\ framed[1].exc = None
        /\ Len(framed[1].pickups) = RowCount \div 4
        /\ \A i \in 1..(RowCount \div 4) :
              framed[1].pickups[i] =
                  Pickup(rows[4 * i - 1].strong, rows[4 * i - 1].img, "Mo",
                         <<"2024-01-05">>, "FORTNIGHTLY")
        /\ framed[1].warned <=> RowCount % 4 # 0

\* C14 witness: one complete group and a last group of two rows.
C14_Witness ==
    /\ framed # <<>>
    /\ GroupsWellFormed
    /\ RowCount = 6
    /\ framed[1].warned
    /\ Len(framed[1].pickups) = 1

(***************************************************************************)
(* SpecThreads: get_locations called from the threads of one process.  A   *)
(* call is four steps, between which the other thread may run: the lookup  *)
(* in the cache, the write of PARAMS['gemeinde'], the GET with PARAMS as   *)
(* it is then, and the store of the result in the cache.                   *)
(***************************************************************************)
\* The option values the remote site lists for a 'gemeinde'
RemoteListing(gemeinde) ==
    IF gemeinde = "Hannover" THEN <<OptFenskeNord, OptFenskeList, OptHauptstr>>
    ELSE <<OptHaupt>>

\* What the remote site may answer to a listing request with the 'gemeinde'
RemoteResponses(gemeinde) ==
    {ListingResponse(200, Found(RemoteListing(gemeinde))),
     ListingResponse(404, Absent)}

\* get_locations(municipality): the cache holds no result, the call enters
\* _get_locations
CallGetLocations(t) ==
    /\ threads[t].pc = "idle"
    /\ \E municipality \in Municipalities :
          /\ ~memo_hit(memo, municipality)
          /\ threads' = [threads EXCEPT ![t] =
                            [pc |-> "write", municipality |-> municipality,
                             gemeinde |-> None]]
    /\ UNCHANGED <<memoSource, directoryVars, resolverVars, houseVars,
                   cacheVars, cliVars, framingVars>>

\* PARAMS['gemeinde'] = municipality
WriteParams(t) ==
    /\ threads[t].pc = "write"
    /\ PARAMS' = [von |-> PARAMS.von, bis |-> PARAMS.bis,
                  gemeinde |-> threads[t].municipality]
    /\ threads' = [threads EXCEPT ![t].pc = "get"]
    /\ UNCHANGED <<memoSource, memo, fetches, lastGet, lastFind, pinnedFind,
                   resolverVars, houseVars, cacheVars, cliVars, framingVars>>

\* get(URL, params=PARAMS), answered with a listing: the request carries
\* the 'gemeinde' PARAMS holds now
GetListing(t) ==
    /\ threads[t].pc = "get"
    /\ threads' = [threads EXCEPT ![t].pc = "store",
                                  ![t].gemeinde = PARAMS.gemeinde]
    /\ UNCHANGED <<memoSource, directoryVars, resolverVars, houseVars,
                   cacheVars, cliVars, framingVars>>

\* The rest of the call: the response is parsed and, if that succeeds, the
\* frozenset is stored in the cache; a call that raises stores nothing
StoreLocations(t) ==
    /\ threads[t].pc = "store"
    /\ \E response \in RemoteResponses(threads[t].gemeinde) :
          LET result == get_locations_uncached(response)
          IN  IF result.exc # None
              THEN UNCHANGED <<memo, memoSource>>
              ELSE /\ memo' = Put(memo, threads[t].municipality, result.val)
                   /\ memoSource' = Put(memoSource, threads[t].municipality,
                                        threads[t].gemeinde)
    /\ threads' = [threads EXCEPT ![t] = ThreadIdle]
    /\ UNCHANGED <<PARAMS, fetches, lastGet, lastFind, pinnedFind,
                   resolverVars, houseVars, cacheVars, cliVars, framingVars>>

InitThreads ==
    /\ ThreadsIdle
    /\ DirectoryIdle /\ ResolverIdle /\ HouseIdle /\ CacheIdle /\ CliIdle
    /\ FramingIdle

NextThreads ==
    \E t \in Threads :
        \/ CallGetLocations(t)
        \/ WriteParams(t)
        \/ GetListing(t)
        \/ StoreLocations(t)

SpecThreads == InitThreads /\ [][NextThreads]_vars

\* C19: the catalog memoized for a municipality was requested with that
\* municipality as 'gemeinde', and is the listing of that municipality.
C19_CatalogOfMunicipality ==
    \A m \in DOMAIN memo :
        /\ memoSource[m] = m
        /\ memo[m] = get_locations_uncached(
                         ListingResponse(200, Found(RemoteListing(m)))).val

====
